---- MODULE Spec2Model ----
(***************************************************************************)
(* Model of the donation backend: the two donation endpoints and the       *)
(* webhook handler of routes/donateRoutes.js, the contact route that       *)
(* shares the file, and the mounting of the webhook route in index.js.     *)
(*                                                                         *)
(* JavaScript values are tagged records.  Strings that the code inspects   *)
(* character by character (currency, amount) are sequences of one-char     *)
(* strings; strings the code only compares as a whole (frequency, event    *)
(* type, messages) are atomic.  Numbers are decimal floating values        *)
(* m * 10^e with the overflow threshold of an IEEE-754 double; binary      *)
(* rounding error of the multiplication is not modelled.                   *)
(***************************************************************************)
EXTENDS Integers, Sequences, FiniteSets, TLC

\* F applied to the value of v, with v evaluated once (a strict let).
Bind(v, F(_)) == CHOOSE r \in {F(x) : x \in {v}} : TRUE

(* ------------------------------------------------------------------ *)
(* JavaScript values                                                   *)
(* ------------------------------------------------------------------ *)
Undefined == [t |-> "undefined"]
Null      == [t |-> "null"]
Bool(b)   == [t |-> "boolean", b |-> b]
Str(s)    == [t |-> "string", s |-> s]
Text(x)   == [t |-> "string", text |-> x]
Num(x)    == [t |-> "number", n |-> x]
\* An object is the sequence of its <<key, value>> entries, in insertion order.
Obj(f)    == [t |-> "object", f |-> f]
Arr(a)    == [t |-> "array", a |-> a]
Buffer(b) == [t |-> "buffer", bytes |-> b]

NaN        == [k |-> "nan", neg |-> FALSE, m |-> 0, e |-> 0]
Inf(neg)   == [k |-> "inf", neg |-> neg, m |-> 0, e |-> 0]
RawFin(neg, m, e) == [k |-> "fin", neg |-> neg, m |-> m, e |-> e]

\* Largest decimal exponent of a finite double (Number.MAX_VALUE is
\* 1.7976931348623157e308) and its leading three digits.
MaxExp10 == 308
MaxLead3 == 179

Digit == [c \in {"0","1","2","3","4","5","6","7","8","9"} |->
            CASE c = "0" -> 0 [] c = "1" -> 1 [] c = "2" -> 2 [] c = "3" -> 3
              [] c = "4" -> 4 [] c = "5" -> 5 [] c = "6" -> 6 [] c = "7" -> 7
              [] c = "8" -> 8 [] c = "9" -> 9]
DigitChar == <<"0","1","2","3","4","5","6","7","8","9">>
IsDigit(c) == c \in DOMAIN Digit

RECURSIVE Pow10(_)
Pow10(n) == IF n <= 0 THEN 1 ELSE 10 * Pow10(n - 1)

RECURSIVE NumDigits(_)
NumDigits(m) == IF m < 10 THEN 1 ELSE 1 + NumDigits(m \div 10)

\* m * 10^e exceeds the largest finite double.
Overflows(m, e) ==
    /\ m > 0
    /\ Bind(NumDigits(m), LAMBDA k :
            \/ e + k - 1 > MaxExp10
            \/ /\ e + k - 1 = MaxExp10
               /\ (IF k >= 3 THEN m \div Pow10(k - 3) ELSE m * Pow10(3 - k)) > MaxLead3)

RECURSIVE StripZeros(_, _)
StripZeros(m, e) ==
    IF m = 0 THEN <<0, 0>>
    ELSE IF m % 10 = 0 THEN StripZeros(m \div 10, e + 1)
    ELSE <<m, e>>

\* The double nearest to (-1)^neg * m * 10^e, in canonical form.
Fin(neg, m, e) ==
    Bind(m, LAMBDA mv :
        IF Overflows(mv, e) THEN Inf(neg)
        ELSE Bind(StripZeros(mv, e), LAMBDA p : RawFin(neg, p[1], p[2])))

IsNaN(x)    == x.k = "nan"
IsFinite(x) == x.k = "fin"
IsZero(x)   == x.k = "fin" /\ x.m = 0
\* x <= 0 in the sense of the JavaScript relational operator.
LeqZero(x)  == \/ x.k = "fin" /\ (x.neg \/ x.m = 0)
               \/ x.k = "inf" /\ x.neg
IsInteger(x) == x.k = "fin" /\ x.e >= 0

\* x * 100 (donateRoutes.js:18)
Times100(x) == IF x.k = "fin" THEN Fin(x.neg, x.m, x.e + 2) ELSE x

\* Math.round: the integer nearest to x, ties towards +Infinity.
MathRound(x) ==
    IF x.k # "fin" \/ x.e >= 0 THEN x
    ELSE LET d == Pow10(0 - x.e)
             s == IF x.neg THEN 0 - x.m ELSE x.m
             q == (2 * s + d) \div (2 * d)
         IN  IF q < 0 THEN Fin(TRUE, 0 - q, 0) ELSE Fin(x.neg, q, 0)

(* ------------------------------------------------------------------ *)
(* Strings as sequences of characters                                  *)
(* ------------------------------------------------------------------ *)
UpperSeq == <<"A","B","C","D","E","F","G","H","I","J","K","L","M",
              "N","O","P","Q","R","S","T","U","V","W","X","Y","Z">>
LowerSeq == <<"a","b","c","d","e","f","g","h","i","j","k","l","m",
              "n","o","p","q","r","s","t","u","v","w","x","y","z">>
LowerSet == {LowerSeq[i] : i \in DOMAIN LowerSeq}
WhiteSpace == {" ", "\t", "\n"}

LowerChar(c) ==
    IF \E i \in DOMAIN UpperSeq : UpperSeq[i] = c
    THEN LowerSeq[CHOOSE i \in DOMAIN UpperSeq : UpperSeq[i] = c]
    ELSE c

\* String.prototype.toLowerCase
ToLowerCase(s) == [i \in DOMAIN s |-> LowerChar(s[i])]

RECURSIVE TrimStart(_)
TrimStart(s) == IF s # <<>> /\ Head(s) \in WhiteSpace THEN TrimStart(Tail(s)) ELSE s

RECURSIVE TrimEnd(_)
TrimEnd(s) ==
    IF s # <<>> /\ s[Len(s)] \in WhiteSpace
    THEN TrimEnd(SubSeq(s, 1, Len(s) - 1)) ELSE s

\* String.prototype.trim
Trim(s) == TrimEnd(TrimStart(s))

\* /^[a-z]{3}$/.test(s)
IsThreeLower(s) == Len(s) = 3 /\ \A i \in 1..3 : s[i] \in LowerSet

\* s.replace(",", "."): the first comma only.
ReplaceComma(s) ==
    IF \E i \in DOMAIN s : s[i] = ","
    THEN LET j == CHOOSE i \in DOMAIN s :
                    s[i] = "," /\ \A h \in 1..(i - 1) : s[h] # ","
         IN  [i \in DOMAIN s |-> IF i = j THEN "." ELSE s[i]]
    ELSE s

RECURSIVE DigitsValue(_)
DigitsValue(s) ==
    IF s = <<>> THEN 0
    ELSE 10 * DigitsValue(SubSeq(s, 1, Len(s) - 1)) + Digit[s[Len(s)]]

RECURSIVE DigitsEnd(_, _)
\* The first index >= i of s that holds no digit (Len(s) + 1 when none).
DigitsEnd(s, i) ==
    IF i <= Len(s) /\ IsDigit(s[i]) THEN DigitsEnd(s, i + 1) ELSE i

RECURSIVE DigitsOf(_)
DigitsOf(m) ==
    IF m < 10 THEN <<DigitChar[m + 1]>>
    ELSE Append(DigitsOf(m \div 10), DigitChar[(m % 10) + 1])

RECURSIVE Zeros(_)
Zeros(n) == IF n <= 0 THEN <<>> ELSE <<"0">> \o Zeros(n - 1)

InfinityText == <<"I","n","f","i","n","i","t","y">>

\* The decimal literal u = digits [. digits] [e [sign] digits], whose integer
\* part ends before i1 and whose fraction ends before i2; NaN when u is none.
DecimalLiteral(neg, u, i1, i2) ==
    LET dot   == i1 <= Len(u) /\ u[i1] = "."
        nFrac == IF dot THEN i2 - i1 - 1 ELSE 0
        hasE  == i2 <= Len(u) /\ u[i2] \in {"e", "E"}
        eSgn  == hasE /\ i2 + 1 <= Len(u) /\ u[i2 + 1] \in {"+", "-"}
        eNeg  == eSgn /\ u[i2 + 1] = "-"
        i3    == IF eSgn THEN i2 + 2 ELSE i2 + 1
    IN  IF (i1 - 1) + nFrac = 0 THEN NaN
        ELSE IF ~hasE
        THEN IF i2 # Len(u) + 1 THEN NaN
             ELSE Fin(neg, DigitsValue(SubSeq(u, 1, i1 - 1) \o SubSeq(u, i1 + 1, i2 - 1)),
                      0 - nFrac)
        ELSE IF i3 > Len(u) \/ DigitsEnd(u, i3) # Len(u) + 1 THEN NaN
        ELSE Bind(DigitsValue(SubSeq(u, i3, Len(u))),
                  LAMBDA expo :
                    Fin(neg, DigitsValue(SubSeq(u, 1, i1 - 1) \o SubSeq(u, i1 + 1, i2 - 1)),
                        (IF eNeg THEN 0 - expo ELSE expo) - nFrac))

\* The literal u after its sign.
UnsignedLiteral(neg, u) ==
    IF u = InfinityText THEN Inf(neg)
    ELSE Bind(DigitsEnd(u, 1),
              LAMBDA i1 :
                Bind(IF i1 <= Len(u) /\ u[i1] = "." THEN DigitsEnd(u, i1 + 1) ELSE i1,
                     LAMBDA i2 : DecimalLiteral(neg, u, i1, i2)))

\* Number(s) for a string s: the StringNumericLiteral grammar restricted to
\* decimal literals (no 0x/0o/0b forms).
StringToNumber(s) ==
    Bind(Trim(s),
         LAMBDA t :
            IF t = <<>> THEN Fin(FALSE, 0, 0)
            ELSE IF Head(t) \in {"+", "-"}
                 THEN Bind(Tail(t), LAMBDA u : UnsignedLiteral(Head(t) = "-", u))
                 ELSE UnsignedLiteral(FALSE, t))

\* Number::toString(x), radix 10.
NumberToString(x) ==
    IF x.k = "nan" THEN <<"N","a","N">>
    ELSE IF x.k = "inf" THEN (IF x.neg THEN <<"-">> ELSE <<>>) \o InfinityText
    ELSE IF x.m = 0 THEN <<"0">>
    ELSE LET ds == DigitsOf(x.m)
             k  == Len(ds)
             n  == k + x.e
             body ==
                IF k <= n /\ n <= 21 THEN ds \o Zeros(n - k)
                ELSE IF 0 < n /\ n <= 21
                     THEN SubSeq(ds, 1, n) \o <<".">> \o SubSeq(ds, n + 1, k)
                ELSE IF -6 < n /\ n <= 0 THEN <<"0", ".">> \o Zeros(0 - n) \o ds
                ELSE LET ex == n - 1
                         es == (IF ex < 0 THEN <<"-">> ELSE <<"+">>)
                               \o DigitsOf(IF ex < 0 THEN 0 - ex ELSE ex)
                     IN  IF k = 1 THEN ds \o <<"e">> \o es
                         ELSE <<ds[1], ".">> \o SubSeq(ds, 2, k) \o <<"e">> \o es
         IN  (IF x.neg THEN <<"-">> ELSE <<>>) \o body

RECURSIVE JoinComma(_)
\* String(v) for a JavaScript value v.
JsString(v) ==
    CASE v.t = "string"    -> v.s
      [] v.t = "number"    -> NumberToString(v.n)
      [] v.t = "boolean"   -> IF v.b THEN <<"t","r","u","e">> ELSE <<"f","a","l","s","e">>
      [] v.t = "undefined" -> <<"u","n","d","e","f","i","n","e","d">>
      [] v.t = "null"      -> <<"n","u","l","l">>
      [] v.t = "array"     -> JoinComma(v.a)
      [] OTHER             -> <<"[","o","b","j","e","c","t"," ","O","b","j","e","c","t","]">>

\* Array.prototype.join over numbers and strings (null/undefined give "").
JoinComma(a) ==
    IF a = <<>> THEN <<>>
    ELSE LET h == IF Head(a).t \in {"undefined", "null"} THEN <<>>
                  ELSE IF Head(a).t = "string" THEN Head(a).s
                  ELSE NumberToString(Head(a).n)
         IN  IF Len(a) = 1 THEN h ELSE h \o <<",">> \o JoinComma(Tail(a))

\* !v
Falsy(v) ==
    \/ v.t \in {"undefined", "null"}
    \/ v.t = "boolean" /\ ~v.b
    \/ v.t = "number" /\ (IsNaN(v.n) \/ IsZero(v.n))
    \/ v.t = "string" /\ "s" \in DOMAIN v /\ v.s = <<>>
    \/ v.t = "string" /\ "text" \in DOMAIN v /\ v.text = ""

(* ------------------------------------------------------------------ *)
(* Helpers of routes/donateRoutes.js                                   *)
(* ------------------------------------------------------------------ *)
\* toCents(amount): Null, or the number Math.round(n * 100).
toCents(amount) ==
    Bind(StringToNumber(ReplaceComma(JsString(amount))),
         LAMBDA n : IF IsNaN(n) \/ ~IsFinite(n) THEN Null
                    ELSE Num(MathRound(Times100(n))))

\* normalizeCurrency(raw): Null, or the currency code as a string.
normalizeCurrency(raw) ==
    IF Falsy(raw) THEN Str(<<"u","s","d">>)
    ELSE IF raw.t # "string" THEN Null
    ELSE LET cur == ToLowerCase(Trim(raw.s))
         IN  IF ~IsThreeLower(cur) THEN Null ELSE Str(cur)

(* ------------------------------------------------------------------ *)
(* Property access, destructuring, JSON                                *)
(* ------------------------------------------------------------------ *)
Nullish(v) == v.t \in {"undefined", "null"}

HasKey(v, k) == v.t = "object" /\ \E i \in DOMAIN v.f : v.f[i][1] = k

\* v[k] for a non-nullish v (a later entry of the same key wins).
Get(v, k) ==
    IF HasKey(v, k)
    THEN v.f[CHOOSE i \in DOMAIN v.f :
                v.f[i][1] = k /\ \A j \in DOMAIN v.f : v.f[j][1] = k => j <= i][2]
    ELSE Undefined

\* v?.[k]
OptGet(v, k) == IF Nullish(v) THEN Undefined ELSE Get(v, k)

\* { k = d } = ... : the default applies to undefined only.
Default(v, d) == IF v.t = "undefined" THEN d ELSE v

\* a || b
OrElse(a, b) == IF Falsy(a) THEN b ELSE a

Punct(c)  == <<"p", c>>
Quoted(x) == <<"s", x>>
ParseFail == [ok |-> FALSE, v |-> Undefined, next |-> 0]

RECURSIVE ParseValue(_, _)
RECURSIVE ParseMembers(_, _, _)
\* JSON.parse over a token sequence: null, string literals and objects.
ParseValue(ts, i) ==
    IF i > Len(ts) THEN ParseFail
    ELSE IF ts[i] = Punct("null") THEN [ok |-> TRUE, v |-> Null, next |-> i + 1]
    ELSE IF ts[i][1] = "s" THEN [ok |-> TRUE, v |-> Text(ts[i][2]), next |-> i + 1]
    ELSE IF ts[i] = Punct("{")
         THEN IF i + 1 <= Len(ts) /\ ts[i + 1] = Punct("}")
              THEN [ok |-> TRUE, v |-> Obj(<<>>), next |-> i + 2]
              ELSE ParseMembers(ts, i + 1, <<>>)
    ELSE ParseFail

ParseMembers(ts, i, acc) ==
    IF i + 1 > Len(ts) \/ ts[i][1] # "s" \/ ts[i + 1] # Punct(":") THEN ParseFail
    ELSE LET r == ParseValue(ts, i + 2)
         IN  IF ~r.ok \/ r.next > Len(ts) THEN ParseFail
             ELSE IF ts[r.next] = Punct("}")
                  THEN [ok |-> TRUE, v |-> Obj(Append(acc, <<ts[i][2], r.v>>)),
                        next |-> r.next + 1]
             ELSE IF ts[r.next] = Punct(",")
                  THEN ParseMembers(ts, r.next + 1, Append(acc, <<ts[i][2], r.v>>))
             ELSE ParseFail

JSONParse(ts) ==
    LET r == ParseValue(ts, 1)
    IN  IF r.ok /\ r.next = Len(ts) + 1 THEN [ok |-> TRUE, v |-> r.v]
        ELSE [ok |-> FALSE, v |-> Undefined]

RECURSIVE JSONStringify(_)
RECURSIVE StringifyMembers(_)
\* The processor's serialisation of an event into the request body.
JSONStringify(v) ==
    CASE v.t = "null"   -> <<Punct("null")>>
      [] v.t = "string" -> <<Quoted(v.text)>>
      [] OTHER          -> <<Punct("{")>> \o StringifyMembers(v.f) \o <<Punct("}")>>

StringifyMembers(f) ==
    IF f = <<>> THEN <<>>
    ELSE <<Quoted(f[1][1]), Punct(":")>> \o JSONStringify(f[1][2])
         \o (IF Len(f) = 1 THEN <<>> ELSE <<Punct(",")>> \o StringifyMembers(Tail(f)))

(* ------------------------------------------------------------------ *)
(* Responses and handler results                                       *)
(* ------------------------------------------------------------------ *)
Response(status, body) == [status |-> status, body |-> body]
Message(m) == Obj(<< <<"message", m>> >>)

\* A synchronous handler prefix ends by responding or by calling the processor.
Responds(r) == [kind |-> "respond", resp |-> r, call |-> Undefined]
Calls(c)    == [kind |-> "call", resp |-> Undefined, call |-> c]

Returned(v) == [kind |-> "return", v |-> v]
Thrown(v)   == [kind |-> "throw", v |-> v]

(* ------------------------------------------------------------------ *)
(* POST /payment-intent                                                *)
(* ------------------------------------------------------------------ *)
\* A catch block that surfaces the message of any error that has one.
paymentIntentCatchLeaky(err) ==
    IF ~Falsy(OptGet(err, "message"))
    THEN Response(400, Message(Get(err, "message")))
    ELSE Response(500, Message(Text("Payment failed, try again.")))

\* The catch block of the handler.
paymentIntentCatch(err) ==
    IF OptGet(err, "type") = Text("StripeInvalidRequestError")
    THEN Response(400, Message(OrElse(Get(err, "message"), Text("Invalid payment request"))))
    ELSE Response(500, Message(Text("Payment failed, try again.")))

\* The handler without its check that amount is present.
paymentIntentStartNoPresenceCheck(reqBody) ==
    LET b           == IF Nullish(reqBody) THEN Obj(<<>>) ELSE reqBody
        amount      == Get(b, "amount")
        name        == Default(Get(b, "name"), Text("Anonymous Donor"))
        rawCurrency == Get(b, "currency")
    IN  Bind(normalizeCurrency(rawCurrency), LAMBDA currency :
        IF Falsy(currency)
        THEN Responds(Response(400,
                Message(Text("Invalid currency. Use a 3-letter code like 'usd' or 'aud'."))))
        ELSE Bind(toCents(amount), LAMBDA cents :
        IF Falsy(cents) \/ LeqZero(cents.n)
        THEN Responds(Response(400, Message(Text("Invalid amount"))))
        ELSE Calls([api |-> "paymentIntents.create", amount |-> cents.n,
                    currency |-> currency.s, mode |-> Undefined, interval |-> Undefined,
                    name |-> name, frequency |-> Undefined])))

\* The handler up to its await: validation, then the processor call.
paymentIntentStart(reqBody) ==
    LET b           == IF Nullish(reqBody) THEN Obj(<<>>) ELSE reqBody
        amount      == Get(b, "amount")
        name        == Default(Get(b, "name"), Text("Anonymous Donor"))
        rawCurrency == Get(b, "currency")
    IN  IF Nullish(amount)
        THEN Responds(Response(400, Message(Text("Missing amount in request body"))))
        ELSE Bind(normalizeCurrency(rawCurrency), LAMBDA currency :
        IF Falsy(currency)
        THEN Responds(Response(400,
                Message(Text("Invalid currency. Use a 3-letter code like 'usd' or 'aud'."))))
        ELSE Bind(toCents(amount), LAMBDA cents :
        IF Falsy(cents) \/ LeqZero(cents.n)
        THEN Responds(Response(400, Message(Text("Invalid amount"))))
        ELSE Calls([api |-> "paymentIntents.create", amount |-> cents.n,
                    currency |-> currency.s, mode |-> Undefined, interval |-> Undefined,
                    name |-> name, frequency |-> Undefined])))

\* The handler from the settlement of stripe.paymentIntents.create on.
paymentIntentFinish(outcome) ==
    IF outcome.kind = "throw" THEN paymentIntentCatch(outcome.v)
    ELSE IF Falsy(OptGet(outcome.v, "client_secret"))
    THEN Response(500, Message(Text("Payment initialization failed")))
    ELSE Response(200, Obj(<< <<"clientSecret", Get(outcome.v, "client_secret")>>,
                              <<"paymentIntentId", Get(outcome.v, "id")>> >>))

(* ------------------------------------------------------------------ *)
(* POST /create-checkout-session                                       *)
(* ------------------------------------------------------------------ *)
checkoutCatch(err) ==
    IF OptGet(err, "type") = Text("StripeInvalidRequestError")
    THEN Response(400, Message(OrElse(Get(err, "message"), Text("Invalid request to Stripe"))))
    ELSE Response(500, Message(Text("Could not create checkout session")))

\* The TypeError of frequency.charAt on a value that is no string.
CharAtTypeError ==
    Obj(<< <<"name", Text("TypeError")>>,
           <<"message", Text("frequency.charAt is not a function")>> >>)

\* mode and recurring interval of the session (the product labels are not
\* modelled, except that building the recurring label throws for a
\* frequency that is no string).
sessionShape(frequency) ==
    IF frequency = Text("one-off")
    THEN [threw |-> FALSE, mode |-> Text("payment"), interval |-> Undefined]
    ELSE IF frequency.t # "string"
    THEN [threw |-> TRUE, mode |-> Text("subscription"), interval |-> Undefined]
    ELSE [threw |-> FALSE, mode |-> Text("subscription"),
          interval |-> IF frequency = Text("weekly") THEN Text("week") ELSE Text("month")]

checkoutStart(reqBody) ==
    LET b           == IF Nullish(reqBody) THEN Obj(<<>>) ELSE reqBody
        amount      == Get(b, "amount")
        name        == Default(Get(b, "name"), Text("Anonymous Donor"))
        rawCurrency == Get(b, "currency")
        frequency   == Default(Get(b, "frequency"), Text("one-off"))
    IN  IF Nullish(amount)
        THEN Responds(Response(400, Message(Text("Missing amount in request body"))))
        ELSE Bind(normalizeCurrency(rawCurrency), LAMBDA currency :
        IF Falsy(currency)
        THEN Responds(Response(400, Message(Text("Invalid currency. Use 'usd', 'aud', etc."))))
        ELSE Bind(toCents(amount), LAMBDA cents :
        IF Falsy(cents) \/ LeqZero(cents.n)
        THEN Responds(Response(400, Message(Text("Invalid amount"))))
        ELSE Bind(sessionShape(frequency), LAMBDA shape :
        IF shape.threw
        THEN Responds(checkoutCatch(CharAtTypeError))
        ELSE Calls([api |-> "checkout.sessions.create", amount |-> cents.n,
                    currency |-> currency.s, mode |-> shape.mode,
                    interval |-> shape.interval, name |-> name,
                    frequency |-> frequency]))))

checkoutFinish(outcome) ==
    IF outcome.kind = "throw" THEN checkoutCatch(outcome.v)
    ELSE IF Falsy(OptGet(outcome.v, "url"))
    THEN Response(500, Message(Text("Failed to create checkout session")))
    ELSE Response(200, Obj(<< <<"url", Get(outcome.v, "url")>> >>))

(* ------------------------------------------------------------------ *)
(* POST /api/donate/webhook                                            *)
(* ------------------------------------------------------------------ *)
\* express.raw({ type: "application/json" }): the body as a Buffer when the
\* content type matches; otherwise the body is left as the parser version
\* leaves it, {} or undefined.
rawBodies(contentType, raw) ==
    IF contentType = "application/json" THEN {Buffer(raw)}
    ELSE {Obj(<<>>), Undefined}

\* The signature header the processor computes: a MAC of the payload under
\* the signing secret.
Sign(secret, payload) == [t |-> "sig", key |-> secret, over |-> payload]

\* constructEvent without the comparison of the signature.
constructEventUnverified(payload, sig, secret) ==
    IF payload.t # "buffer" THEN Thrown(Text("Webhook payload must be provided as a string or a Buffer"))
    ELSE IF sig.t # "sig" THEN Thrown(Text("Unable to extract timestamp and signatures from header"))
    ELSE LET r == JSONParse(payload.bytes)
         IN  IF r.ok THEN Returned(r.v) ELSE Thrown(Text("Unexpected token in JSON"))

\* stripe.webhooks.constructEvent(payload, sig, secret)
constructEvent(payload, sig, secret) ==
    IF payload.t # "buffer" THEN Thrown(Text("Webhook payload must be provided as a string or a Buffer"))
    ELSE IF sig.t # "sig" THEN Thrown(Text("Unable to extract timestamp and signatures from header"))
    ELSE IF sig # Sign(secret, payload.bytes)
    THEN Thrown(Text("No signatures found matching the expected signature for payload"))
    ELSE LET r == JSONParse(payload.bytes)
         IN  IF r.ok THEN Returned(r.v) ELSE Thrown(Text("Unexpected token in JSON"))

\* The first try block of webhookHandler: the event, or the error caught.
webhookEvent(body, sig, secret) ==
    IF secret # ""
    THEN constructEvent(body, sig, secret)
    ELSE IF body.t \in {"object", "buffer", "null", "array"} THEN Returned(body)
    ELSE Thrown(Text("\"undefined\" is not valid JSON"))

\* event.data.object.id : does the access chain throw?
ObjectIdThrows(event) ==
    \/ Nullish(Get(event, "data"))
    \/ Nullish(Get(Get(event, "data"), "object"))

\* A switch with cases for the payment_intent events as well.
dispatchWithIntentCases(event) ==
    IF Nullish(event) THEN [branch |-> "none", threw |-> TRUE]
    ELSE LET type == Get(event, "type")
         IN  IF type = Text("checkout.session.completed")
             THEN [branch |-> "checkout.session.completed", threw |-> ObjectIdThrows(event)]
             ELSE IF type = Text("payment_intent.succeeded")
             THEN [branch |-> "payment_intent.succeeded", threw |-> ObjectIdThrows(event)]
             ELSE IF type = Text("payment_intent.payment_failed")
             THEN [branch |-> "payment_intent.payment_failed", threw |-> ObjectIdThrows(event)]
             ELSE IF type = Text("invoice.payment_succeeded")
             THEN [branch |-> "invoice.payment_succeeded", threw |-> ObjectIdThrows(event)]
             ELSE IF type = Text("invoice.payment_failed")
             THEN [branch |-> "invoice.payment_failed", threw |-> ObjectIdThrows(event)]
             ELSE [branch |-> "default", threw |-> FALSE]

\* A switch whose default case throws.
dispatchDefaultThrows(event) ==
    IF Nullish(event) THEN [branch |-> "none", threw |-> TRUE]
    ELSE LET type == Get(event, "type")
         IN  IF type = Text("checkout.session.completed")
             THEN [branch |-> "checkout.session.completed", threw |-> ObjectIdThrows(event)]
             ELSE IF type = Text("invoice.payment_succeeded")
             THEN [branch |-> "invoice.payment_succeeded", threw |-> ObjectIdThrows(event)]
             ELSE IF type = Text("invoice.payment_failed")
             THEN [branch |-> "invoice.payment_failed", threw |-> ObjectIdThrows(event)]
             ELSE [branch |-> "default", threw |-> TRUE]

\* The switch on event.type: the branch entered and whether it threw.
dispatch(event) ==
    IF Nullish(event) THEN [branch |-> "none", threw |-> TRUE]
    ELSE LET type == Get(event, "type")
         IN  IF type = Text("checkout.session.completed")
             THEN [branch |-> "checkout.session.completed", threw |-> ObjectIdThrows(event)]
             ELSE IF type = Text("invoice.payment_succeeded")
             THEN [branch |-> "invoice.payment_succeeded", threw |-> ObjectIdThrows(event)]
             ELSE IF type = Text("invoice.payment_failed")
             THEN [branch |-> "invoice.payment_failed", threw |-> ObjectIdThrows(event)]
             ELSE [branch |-> "default", threw |-> FALSE]

\* The text `Webhook Error: ${err.message}`.
WebhookError(m) == [t |-> "string", prefix |-> "Webhook Error: ", text |-> m]

\* A handler that acknowledges after its catch block as well.
webhookHandlerAlwaysAcks(body, sig, secret) ==
    LET ev == webhookEvent(body, sig, secret)
        d  == dispatch(ev.v)
    IN  IF ev.kind = "throw"
        THEN [resp |-> Response(400, WebhookError(ev.v.text)), event |-> ev,
              branches |-> <<>>]
        ELSE [resp |-> Response(200, Obj(<< <<"received", Bool(TRUE)>> >>)), event |-> ev,
              branches |-> IF d.branch = "none" THEN <<>> ELSE <<d.branch>>]

\* webhookHandler(req, res): the response, the outcome of the first try block
\* (the handler's event, or the error caught) and the branches entered.
webhookHandler(body, sig, secret) ==
    LET ev == webhookEvent(body, sig, secret)
        d  == dispatch(ev.v)
    IN  IF ev.kind = "throw"
        THEN [resp |-> Response(400, WebhookError(ev.v.text)), event |-> ev,
              branches |-> <<>>]
        ELSE IF d.threw
        THEN [resp |-> Response(500, Undefined), event |-> ev,
              branches |-> IF d.branch = "none" THEN <<>> ELSE <<d.branch>>]
        ELSE [resp |-> Response(200, Obj(<< <<"received", Bool(TRUE)>> >>)), event |-> ev,
              branches |-> <<d.branch>>]

(* ------------------------------------------------------------------ *)
(* POST /api/contact (the second module of routes/donateRoutes.js)     *)
(* ------------------------------------------------------------------ *)
contactStart(reqBody) ==
    IF Nullish(reqBody)
    THEN Responds(Response(500, Message(Text("Server error"))))
    ELSE IF \/ Falsy(Get(reqBody, "name"))
       \/ Falsy(Get(reqBody, "email"))
       \/ Falsy(Get(reqBody, "message"))
    THEN Responds(Response(400, Message(Text("Missing required fields"))))
    ELSE Calls([name |-> Get(reqBody, "name"), email |-> Get(reqBody, "email"),
                message |-> Get(reqBody, "message")])

contactFinish(outcome) ==
    IF outcome.kind = "throw" THEN Response(500, Message(Text("Server error")))
    ELSE Response(201, Obj(<< <<"message", Text("Message received")>>,
                              <<"data", outcome.v>> >>))

(* ------------------------------------------------------------------ *)
(* Inputs                                                              *)
(* ------------------------------------------------------------------ *)
MaxInFlight == 1
MaxContacts == 1

Chars(a, b, c) == Str(<<a, b, c>>)

Entry(k, v) == IF v = Undefined THEN <<>> ELSE << <<k, v>> >>
DonationBody(amount, currency, frequency, name) ==
    Obj(Entry("amount", amount) \o Entry("currency", currency)
        \o Entry("frequency", frequency) \o Entry("name", name))

Ten == Num(Fin(FALSE, 10, 0))
Five == Num(Fin(FALSE, 5, 0))

MissingAmounts == {Undefined, Null}
GoodAmounts ==
    { Ten, Str(<<"1", ",", "5", "0">>), Str(<<"1", ".", "5", "0">>),
      Str(<<"0", ".", "0", "0", "5">>), Arr(<<Five>>) }
HugeAmounts ==
    { Num(Fin(FALSE, 1, 307)), Str(<<"1", "e", "3", "0", "7">>) }
BadAmounts ==
    { Str(<<"a", "b", "c">>), Str(<<>>), Num(Fin(FALSE, 0, 0)),
      Str(<<"-", "5">>), Num(Fin(TRUE, 5, 0)), Str(<<"0", ".", "0", "0", "4">>),
      Str(<<"-", "0", ".", "0", "0", "5">>),
      Bool(TRUE), Obj(<<>>), Str(<<"1", ",", "2", ",", "3">>),
      Str(InfinityText), Str(<<"2", "e", "3", "0", "8">>) }
Amounts == MissingAmounts \cup GoodAmounts \cup HugeAmounts \cup BadAmounts

MissingCurrencies == {Undefined, Null}
FalsyCurrencies == {Str(<<>>), Num(Fin(FALSE, 0, 0)), Bool(FALSE)}
GoodCurrencies ==
    { Chars("u", "s", "d"), Chars("A", "U", "D"),
      Str(<<" ", "a", "u", "d", " ">>), Str(<<" ", "U", "s", "D">>) }
BadCurrencies ==
    { Num(Fin(FALSE, 5, 0)), Bool(TRUE), Obj(<<>>), Arr(<<Chars("u", "s", "d")>>),
      Chars("a", "1", "b"), Str(<<"u", "s">>), Str(<<"u", "s", "d", "d">>),
      Str(<<" ">>), Chars("a", " ", "b") }
Currencies == MissingCurrencies \cup FalsyCurrencies \cup GoodCurrencies \cup BadCurrencies

Frequencies ==
    { Undefined, Text("one-off"), Text("weekly"), Text("monthly"), Text("biannual"),
      Text(""), Text("Weekly"), Null, Num(Fin(FALSE, 7, 0)), Bool(TRUE) }

Names == {Undefined, Text("Ann")}

\* Request bodies of POST /payment-intent: each field over its whole set with
\* the others absent, and the product of a few values of each.
IntentBodies ==
    {Undefined, DonationBody(Five, Undefined, Undefined, Text("Ann"))}
    \cup {DonationBody(a, Undefined, Undefined, Undefined) : a \in Amounts}
    \cup {DonationBody(Ten, c, Undefined, Undefined) : c \in Currencies}
    \cup {DonationBody(a, c, Undefined, Undefined) :
            a \in {Undefined, Str(<<>>), Five},
            c \in {Chars("a", "1", "b"), Bool(FALSE), Chars("A", "U", "D")}}

\* Request bodies of POST /create-checkout-session: every frequency, and a
\* few amounts and currencies alone and together.
CheckoutBodies ==
    {Undefined, DonationBody(Five, Chars("A", "U", "D"), Text("monthly"), Text("Ann"))}
    \cup {DonationBody(Five, Undefined, f, Undefined) : f \in Frequencies}
    \cup {DonationBody(a, Undefined, Undefined, Undefined) :
            a \in {Null, Str(<<"1", ",", "5", "0">>), Str(<<>>), Num(Fin(FALSE, 1, 307))}}
    \cup {DonationBody(Ten, c, Undefined, Undefined) :
            c \in {Null, Num(Fin(FALSE, 0, 0)), Str(<<>>), Num(Fin(FALSE, 5, 0)),
                   Str(<<" ", "a", "u", "d", " ">>)}}
    \cup {DonationBody(a, c, f, Undefined) :
            a \in {Undefined, Str(<<"a", "b", "c">>), Ten},
            c \in {Chars("a", "1", "b"), Chars("A", "U", "D")},
            f \in {Text("weekly"), Num(Fin(FALSE, 7, 0))}}

\* Settlements of stripe.paymentIntents.create.
IntentOutcomes ==
    { Returned(Obj(<< <<"id", Text("pi_1")>>, <<"client_secret", Text("pi_1_secret")>> >>)),
      Returned(Obj(<< <<"id", Text("pi_1")>> >>)),
      Returned(Null),
      Thrown(Obj(<< <<"type", Text("StripeInvalidRequestError")>>,
                    <<"message", Text("Invalid currency: xxx")>> >>)),
      Thrown(Obj(<< <<"type", Text("StripeInvalidRequestError")>> >>)),
      Thrown(Obj(<< <<"type", Text("StripeAPIError")>>,
                    <<"message", Text("upstream detail")>> >>)) }

\* Settlements of stripe.checkout.sessions.create.
SessionOutcomes ==
    { Returned(Obj(<< <<"id", Text("cs_1")>>, <<"url", Text("https://checkout/cs_1")>> >>)),
      Returned(Obj(<< <<"id", Text("cs_1")>> >>)),
      Thrown(Obj(<< <<"type", Text("StripeInvalidRequestError")>>,
                    <<"message", Text("Invalid currency: xxx")>> >>)),
      Thrown(Obj(<< <<"type", Text("StripeInvalidRequestError")>> >>)),
      Thrown(Obj(<< <<"type", Text("StripeAPIError")>>,
                    <<"message", Text("upstream detail")>> >>)),
      Thrown(Null) }

Event(type, data) == Obj(<< <<"id", Text("evt_1")>> >> \o Entry("type", type) \o Entry("data", data))
WithObject == Obj(<< <<"object", Obj(<< <<"id", Text("obj_1")>> >>)>> >>)

SwitchTypes ==
    {"checkout.session.completed", "invoice.payment_succeeded", "invoice.payment_failed"}
OtherTypes ==
    {"payment_intent.succeeded", "payment_intent.payment_failed", "some.unknown.event"}

Events ==
    {Event(Text(ty), d) : ty \in SwitchTypes \cup OtherTypes, d \in {WithObject, Undefined}}
    \cup {Event(Text("checkout.session.completed"), d) : d \in {Obj(<<>>), Null}}
    \cup {Event(Undefined, WithObject), Obj(<<>>), Null}

Malformed == <<Punct("{"), Quoted("type")>>
RawPayloads == {JSONStringify(e) : e \in Events} \cup {Malformed}

Secrets == {"", "whsec_live"}

\* Signature headers sent with a payload: none, unparseable, the processor's,
\* one made without the signing secret, one made for another payload.
Signatures(raw) ==
    { Undefined, Text("garbage"),
      Sign("whsec_live", raw), Sign("whsec_forged", raw),
      Sign("whsec_live", JSONStringify(Event(Text("invoice.payment_succeeded"), WithObject))) }

\* Webhook requests: every payload and signature as application/json, and a
\* few under a content type the raw-body parser does not match.
WebhookRequests ==
    UNION {{[contentType |-> "application/json", raw |-> raw, sig |-> sig] :
                sig \in Signatures(raw)} : raw \in RawPayloads}
    \cup {[contentType |-> "text/plain", raw |-> raw, sig |-> Sign("whsec_live", raw)] :
            raw \in {JSONStringify(Event(Text("invoice.payment_failed"), WithObject))}}

ContactBodies ==
    { Undefined, Obj(<<>>),
      Obj(<< <<"name", Text("Ann")>>, <<"email", Text("a@x.org")>> >>),
      Obj(<< <<"name", Text("Ann")>>, <<"email", Text("a@x.org")>>, <<"message", Text("")>> >>),
      Obj(<< <<"name", Text("Ann")>>, <<"email", Text("a@x.org")>>, <<"message", Text("hi")>> >>) }

(* ------------------------------------------------------------------ *)
(* State                                                               *)
(* ------------------------------------------------------------------ *)
VARIABLES
    webhookSecret,  \* process.env.STRIPE_WEBHOOK_SECRET ("" when unset)
    slots,          \* the exchanges in progress, one per connection; outcome is
                    \* the settlement of the awaited call, or of the first try
                    \* block of the webhook handler
    contacts        \* number of documents in the Contact collection

vars == <<webhookSecret, slots, contacts>>

Slot == 1..MaxInFlight

Idle == [pc |-> "idle", route |-> "none", req |-> Undefined, calls |-> <<>>,
         outcome |-> Undefined, responses |-> <<>>, branches |-> <<>>]

\* The exchange after the synchronous prefix r of a handler.
Started(route, req, r) ==
    IF r.kind = "respond"
    THEN [pc |-> "responded", route |-> route, req |-> req, calls |-> <<>>,
          outcome |-> Undefined, responses |-> <<r.resp>>, branches |-> <<>>]
    ELSE [pc |-> "awaiting", route |-> route, req |-> req, calls |-> <<r.call>>,
          outcome |-> Undefined, responses |-> <<>>, branches |-> <<>>]

\* The exchange after the awaited call settled with outcome o and the
\* handler answered resp.
Settled(x, o, resp) ==
    [x EXCEPT !.pc = "responded", !.outcome = o, !.responses = Append(@, resp)]

Init ==
    /\ webhookSecret \in Secrets
    /\ slots = [i \in Slot |-> Idle]
    /\ contacts = 0

PaymentIntentRequest(i) ==
    /\ slots[i].pc = "idle"
    /\ \E body \in IntentBodies :
       \E r \in {paymentIntentStart(body)} :
          slots' = [slots EXCEPT ![i] = Started("payment-intent", [body |-> body], r)]
    /\ UNCHANGED <<webhookSecret, contacts>>

PaymentIntentSettle(i) ==
    /\ slots[i].pc = "awaiting"
    /\ slots[i].route = "payment-intent"
    /\ \E o \in IntentOutcomes :
          slots' = [slots EXCEPT ![i] = Settled(@, o, paymentIntentFinish(o))]
    /\ UNCHANGED <<webhookSecret, contacts>>

CheckoutRequest(i) ==
    /\ slots[i].pc = "idle"
    /\ \E body \in CheckoutBodies :
       \E r \in {checkoutStart(body)} :
          slots' = [slots EXCEPT ![i] = Started("create-checkout-session", [body |-> body], r)]
    /\ UNCHANGED <<webhookSecret, contacts>>

CheckoutSettle(i) ==
    /\ slots[i].pc = "awaiting"
    /\ slots[i].route = "create-checkout-session"
    /\ \E o \in SessionOutcomes :
          slots' = [slots EXCEPT ![i] = Settled(@, o, checkoutFinish(o))]
    /\ UNCHANGED <<webhookSecret, contacts>>

\* app.post("/api/donate/webhook", express.raw(...), webhookHandler)
WebhookRequest(i) ==
    /\ slots[i].pc = "idle"
    /\ \E w \in WebhookRequests :
       \E body \in rawBodies(w.contentType, w.raw) :
       \E r \in {webhookHandler(body, w.sig, webhookSecret)} :
              slots' = [slots EXCEPT ![i] =
                  [pc |-> "responded", route |-> "webhook",
                   req |-> [contentType |-> w.contentType, raw |-> w.raw,
                            sig |-> w.sig, body |-> body],
                   calls |-> <<>>, outcome |-> r.event,
                   responses |-> <<r.resp>>, branches |-> r.branches]]
    /\ UNCHANGED <<webhookSecret, contacts>>

ContactRequest(i) ==
    /\ slots[i].pc = "idle"
    /\ \E body \in ContactBodies :
       \E r \in {contactStart(body)} :
          slots' = [slots EXCEPT ![i] = Started("contact", [body |-> body], r)]
    /\ UNCHANGED <<webhookSecret, contacts>>

\* Contact.create settles: the document is stored, or the store throws.
ContactSettle(i) ==
    /\ slots[i].pc = "awaiting"
    /\ slots[i].route = "contact"
    /\ \/ /\ contacts < MaxContacts
          /\ contacts' = contacts + 1
          /\ LET o == Returned(Obj(<< <<"name", slots[i].calls[1].name>>,
                                      <<"email", slots[i].calls[1].email>>,
                                      <<"message", slots[i].calls[1].message>> >>))
             IN  slots' = [slots EXCEPT ![i] = Settled(@, o, contactFinish(o))]
       \/ /\ contacts' = contacts
          /\ LET o == Thrown(Obj(<< <<"message", Text("buffering timed out")>> >>))
             IN  slots' = [slots EXCEPT ![i] = Settled(@, o, contactFinish(o))]
    /\ UNCHANGED webhookSecret

\* The client has read the response; the connection serves the next request.
Release(i) ==
    /\ slots[i].pc = "responded"
    /\ slots' = [slots EXCEPT ![i] = Idle]
    /\ UNCHANGED <<webhookSecret, contacts>>

Next ==
    \E i \in Slot :
        \/ PaymentIntentRequest(i)
        \/ PaymentIntentSettle(i)
        \/ CheckoutRequest(i)
        \/ CheckoutSettle(i)
        \/ WebhookRequest(i)
        \/ ContactRequest(i)
        \/ ContactSettle(i)
        \/ Release(i)

Spec == Init /\ [][Next]_vars

(* ------------------------------------------------------------------ *)
(* Properties                                                          *)
(* ------------------------------------------------------------------ *)
Donation(x) == x.route \in {"payment-intent", "create-checkout-session"}
Responded(x) == x.pc = "responded"

\* The fields of the request body of a donation exchange.
Field(x, k) == OptGet(x.req.body, k)

Status(x) == x.responses[1].status
Body(x)   == x.responses[1].body

\* The raw currency is a string that is three letters once trimmed and lowercased.
ThreeLetterText(raw) == raw.t = "string" /\ IsThreeLower(ToLowerCase(Trim(raw.s)))

\* The checks of the handler, each taken alone.
AmountPresent(x) == ~Nullish(Field(x, "amount"))
CurrencyPasses(x) == ~Falsy(normalizeCurrency(Field(x, "currency")))
AmountPasses(x) ==
    /\ AmountPresent(x)
    /\ LET cents == toCents(Field(x, "amount"))
       IN  ~Falsy(cents) /\ ~LeqZero(cents.n)

InvalidAmountMessage == Message(Text("Invalid amount"))
MissingAmountMessage == Message(Text("Missing amount in request body"))
InvalidCurrencyMessages ==
    { Message(Text("Invalid currency. Use a 3-letter code like 'usd' or 'aud'.")),
      Message(Text("Invalid currency. Use 'usd', 'aud', etc.")) }

\* C1: on both donation endpoints a request without amount (undefined or
\* null) is answered 400 with no processor call; the processor is called at
\* most once per request and only when the amount-present, currency and
\* amount checks all passed; the checks run in that order, so the first one
\* that fails decides the answer.
C1_CallOnlyAfterChecks ==
    \A i \in Slot :
        LET x        == slots[i]
            present  == AmountPresent(x)
            currency == CurrencyPasses(x)
            amount   == AmountPasses(x)
        IN  Donation(x) =>
              /\ Len(x.calls) <= 1
              /\ x.calls # <<>> => present /\ currency /\ amount
              /\ ~present =>
                    /\ x.calls = <<>>
                    /\ x.responses = <<Response(400, MissingAmountMessage)>>
              /\ present /\ ~currency =>
                    /\ x.calls = <<>>
                    /\ Len(x.responses) = 1 /\ Status(x) = 400
                    /\ Body(x) \in InvalidCurrencyMessages
              /\ present /\ currency /\ ~amount =>
                    /\ x.calls = <<>>
                    /\ x.responses = <<Response(400, InvalidAmountMessage)>>

\* Both endpoints answered a request without amount, one of them with a
\* currency that is invalid as well, and a call is in flight elsewhere or was made.
C1_Witness ==
    \E i \in Slot :
        /\ slots[i].route = "create-checkout-session"
        /\ Responded(slots[i])
        /\ slots[i].req.body # Undefined
        /\ ~AmountPresent(slots[i])
        /\ ~CurrencyPasses(slots[i])
        /\ Status(slots[i]) = 400

\* The signature header is the processor's MAC of this raw body under the
\* configured secret.
SignatureVerifies(x) == x.req.sig = Sign(webhookSecret, x.req.raw)

\* C2: with a signing secret configured, a webhook request whose signature
\* does not verify against the raw body (mismatch, malformed, absent) is
\* answered 400 and enters no branch of the dispatch switch.
C2_BadSignatureRejected ==
    \A i \in Slot :
        LET x == slots[i]
        IN  x.route = "webhook" /\ webhookSecret # "" /\ ~SignatureVerifies(x) =>
              /\ Len(x.responses) = 1
              /\ Status(x) = 400
              /\ x.branches = <<>>

\* A well-formed checkout.session.completed event under a forged signature
\* was rejected.
C2_Witness ==
    \E i \in Slot :
        /\ slots[i].route = "webhook"
        /\ webhookSecret # ""
        /\ slots[i].req.contentType = "application/json"
        /\ slots[i].req.raw = JSONStringify(Event(Text("checkout.session.completed"), WithObject))
        /\ slots[i].req.sig = Sign("whsec_forged", slots[i].req.raw)
        /\ Status(slots[i]) = 400

\* The request passed signature verification and its payload is an event
\* of the given type.
VerifiedEventOfType(x, type) ==
    /\ x.route = "webhook"
    /\ webhookSecret # ""
    /\ x.req.body.t = "buffer"
    /\ SignatureVerifies(x)
    /\ LET parsed == JSONParse(x.req.raw)
       IN  parsed.ok /\ OptGet(parsed.v, "type") = Text(type)

IntentTypes == {"payment_intent.succeeded", "payment_intent.payment_failed"}
Acknowledgement == Response(200, Obj(<< <<"received", Bool(TRUE)>> >>))

\* C3 as stated: a verified payment_intent.succeeded or
\* payment_intent.payment_failed event enters a branch of its own, not the
\* unhandled default.
C3_IntentEventsHaveOwnBranch ==
    \A i \in Slot : \A ty \in IntentTypes :
        VerifiedEventOfType(slots[i], ty) => slots[i].branches = <<ty>>

\* C3 amended: the switch has no branch for payment_intent.succeeded or
\* payment_intent.payment_failed; a verified event of either type enters the
\* unhandled default branch and is acknowledged with 200 {received: true}.
C3_IntentEventsUnhandled ==
    \A i \in Slot : \A ty \in IntentTypes :
        VerifiedEventOfType(slots[i], ty) =>
            /\ slots[i].branches = <<"default">>
            /\ slots[i].responses = <<Acknowledgement>>

C3_Witness ==
    \E i \in Slot :
        /\ VerifiedEventOfType(slots[i], "payment_intent.succeeded")
        /\ slots[i].responses = <<Acknowledgement>>

\* C4: with no secret configured, a request through the mounted route whose
\* body encodes an event is dispatched to the branch a verified event of the
\* same content reaches.
C4_UnsignedDispatchedAsVerified ==
    \A i \in Slot :
        LET x == slots[i]
        IN  /\ x.route = "webhook"
            /\ webhookSecret = ""
            /\ x.req.contentType = "application/json"
            /\ JSONParse(x.req.raw).ok
            => x.branches =
                 webhookHandler(x.req.body, Sign("whsec_live", x.req.raw), "whsec_live").branches

\* The session shape C5 states for a frequency.
StatedMode(frequency) ==
    IF frequency \in {Undefined, Text("one-off")} THEN Text("payment") ELSE Text("subscription")
StatedInterval(frequency) ==
    IF frequency \in {Undefined, Text("one-off")} THEN Undefined
    ELSE IF frequency = Text("weekly") THEN Text("week") ELSE Text("month")

\* C5: every checkout request that passes validation yields one processor
\* call whose mode and interval follow the frequency (one-off or absent:
\* payment, no interval; weekly: subscription, week; anything else:
\* subscription, month) and whose unit amount is the normalized minor units.
C5_SessionShapeFollowsFrequency ==
    \A i \in Slot :
        LET x == slots[i]
        IN  /\ x.route = "create-checkout-session"
            /\ AmountPresent(x) /\ CurrencyPasses(x) /\ AmountPasses(x)
            => /\ Len(x.calls) = 1
               /\ x.calls[1].mode = StatedMode(Field(x, "frequency"))
               /\ x.calls[1].interval = StatedInterval(Field(x, "frequency"))
               /\ x.calls[1].amount = toCents(Field(x, "amount")).n

\* C6: a supplied currency that is no string, or no three letters once
\* trimmed and lowercased, is answered 400 without a processor call; "usd"
\* is used only when the currency is missing or spells usd; a three-letter
\* string gives its lowercase form.
C6_SuppliedCurrencyValidated ==
    \A i \in Slot :
        LET x   == slots[i]
            raw == Field(x, "currency")
        IN  Donation(x) /\ AmountPresent(x) =>
              /\ ~Nullish(raw) /\ ~ThreeLetterText(raw) =>
                    x.calls = <<>> /\ Len(x.responses) = 1 /\ Status(x) = 400
              /\ x.calls # <<>> /\ x.calls[1].currency = <<"u", "s", "d">> =>
                    Nullish(raw) \/ (raw.t = "string" /\ ToLowerCase(Trim(raw.s)) = <<"u", "s", "d">>)
              /\ x.calls # <<>> /\ ThreeLetterText(raw) =>
                    x.calls[1].currency = ToLowerCase(Trim(raw.s))

\* The verification/parse step passed, and the event the handler works on.
Passed(x) == x.route = "webhook" /\ x.outcome.kind = "return"
EventOf(x) == x.outcome.v

\* The exchange carries an event whose type the switch does not name.
UnhandledType(x) ==
    /\ Passed(x)
    /\ ~Nullish(EventOf(x))
    /\ \A ty \in SwitchTypes : Get(EventOf(x), "type") # Text(ty)

\* C7: a webhook request that passes the verification/parse step with an
\* event type the switch does not name is answered 200 {received: true} and
\* changes nothing: no processor call, no store write, no other exchange and
\* no configuration, whatever requests came before.
C7_UnhandledEventChangesNothing ==
    [][\A i \in Slot :
          slots[i].pc = "idle" /\ UnhandledType(slots'[i]) =>
             /\ slots'[i].responses = <<Acknowledgement>>
             /\ slots'[i].branches = <<"default">>
             /\ slots'[i].calls = <<>>
             /\ contacts' = contacts
             /\ webhookSecret' = webhookSecret
             /\ \A j \in Slot \ {i} : slots'[j] = slots[j]]_vars

\* A verified some.unknown.event was acknowledged after a contact document
\* had been stored by an earlier request.
C7_Witness ==
    \E i \in Slot :
        /\ VerifiedEventOfType(slots[i], "some.unknown.event")
        /\ slots[i].responses = <<Acknowledgement>>
        /\ contacts > 0

GenericFailure(x) ==
    IF x.route = "payment-intent" THEN Message(Text("Payment failed, try again."))
    ELSE Message(Text("Could not create checkout session"))
ResultKey(x) == IF x.route = "payment-intent" THEN "client_secret" ELSE "url"
InvalidRequest(err) == OptGet(err, "type") = Text("StripeInvalidRequestError")

\* C8: on both donation endpoints a settled processor call is mapped to
\* exactly one response: a thrown StripeInvalidRequestError to 400 carrying
\* the processor's message (when it has one), any other thrown error to 500
\* with the fixed generic message, a result lacking client_secret / url to
\* 500; an exchange never holds two responses, and a finished one holds one.
C8_ProcessorFailuresMapped ==
    \A i \in Slot :
        LET x == slots[i]
            o == x.outcome
        IN  Donation(x) =>
              /\ Len(x.responses) <= 1
              /\ Responded(x) <=> Len(x.responses) = 1
              /\ Responded(x) /\ x.calls # <<>> =>
                    /\ o.kind = "throw" /\ InvalidRequest(o.v) =>
                          /\ Status(x) = 400
                          /\ ~Falsy(Get(o.v, "message")) => Body(x) = Message(Get(o.v, "message"))
                    /\ o.kind = "throw" /\ ~InvalidRequest(o.v) =>
                          x.responses = <<Response(500, GenericFailure(x))>>
                    /\ o.kind = "return" /\ Falsy(OptGet(o.v, ResultKey(x))) =>
                          Status(x) = 500

\* A checkout call failed with a StripeAPIError carrying a message, and the
\* client got the generic 500.
C8_Witness ==
    \E i \in Slot :
        /\ slots[i].route = "create-checkout-session"
        /\ Responded(slots[i])
        /\ slots[i].calls # <<>>
        /\ slots[i].outcome.kind = "throw"
        /\ OptGet(slots[i].outcome.v, "type") = Text("StripeAPIError")
        /\ Status(slots[i]) = 500

\* Handling the event throws: there is no event object, or the switch names
\* its type and data.object is missing.
HandlingThrows(ev) ==
    \/ Nullish(ev)
    \/ /\ \E ty \in SwitchTypes : Get(ev, "type") = Text(ty)
       /\ \/ Nullish(Get(ev, "data"))
          \/ Nullish(Get(Get(ev, "data"), "object"))

\* C9: once the verification/parse step passed, 200 {received: true} is sent
\* exactly when the dispatch completed without an exception; when handling
\* throws the answer is 500 with an empty body.
C9_AckIffHandled ==
    \A i \in Slot :
        LET x      == slots[i]
            throws == HandlingThrows(EventOf(x))
        IN  Passed(x) =>
              /\ Len(x.responses) = 1
              /\ x.responses[1] = Acknowledgement <=> ~throws
              /\ throws => x.responses[1] = Response(500, Undefined)

\* A verified checkout.session.completed event without data was answered
\* 500 with an empty body.
C9_Witness ==
    \E i \in Slot :
        /\ VerifiedEventOfType(slots[i], "checkout.session.completed")
        /\ Nullish(Get(JSONParse(slots[i].req.raw).v, "data"))
        /\ slots[i].responses = <<Response(500, Undefined)>>

\* C10: every call made to the processor carries an amount that is an
\* integer greater than 0 and a currency of three lowercase letters.
C10_CallAmountPositiveInteger ==
    \A i \in Slot :
        \A n \in DOMAIN slots[i].calls :
            Donation(slots[i]) =>
              /\ IsInteger(slots[i].calls[n].amount)
              /\ ~LeqZero(slots[i].calls[n].amount)
              /\ IsThreeLower(slots[i].calls[n].currency)

====
